---- MODULE Spec2Model ----
(***************************************************************************)
(* json-rpc-cache-proxy: the TTL cache and the registry of the chains'     *)
(* caches (src/cache.py), the cache key derivation, the HTTP request       *)
(* orchestration and the WebSocket relay (src/main.py, src/config.py).     *)
(*                                                                         *)
(* Python values are modelled as follows.  A dict is a function whose      *)
(* domain is the set of its keys; None and the empty dict are the empty    *)
(* function << >> (both are falsy in Python); a list is a sequence.        *)
(* time.time() is the integer clock `now`.                                 *)
(***************************************************************************)
EXTENDS Integers, Sequences, FiniteSets, TLC

\* ------------------------------------------------------------------ bounds
\* maxsize of every chain cache (the code's default is 1000)
MaxSize == 2
\* the clock stops advancing at MaxTime
MaxTime == 2
\* the messages each peer of a WebSocket session sends at most
MaxMsgs == 2

VARIABLES
    caches,     \* ChainSpecificTTLCache.caches: chain -> TTLCache
    now,        \* time.time()
    req,        \* the HTTP requests: handler -> its locals
    ops,        \* cache harness: the calls made on the cache so far
    last,       \* cache harness: the last call on the cache and its result
    kd,         \* key derivation harness: inputs and results
    cache_statuses,     \* JSONRPCCacheProxy.cache_statuses
    last_ratio_log,     \* JSONRPCCacheProxy.last_ratio_log
    ws          \* the WebSocket session: the endpoint's locals and its peers

vars == <<caches, now, req, ops, last, kd, cache_statuses, last_ratio_log, ws>>

None == << >>

\* Python truthiness of a dict-or-None / a list
Truthy(x) == x # << >>

\* ------------------------------------------------------------ src/cache.py
\* OrderedDict helpers: the dict is the sequence of its items, oldest first
Keys(od) == {od[i].key : i \in 1..Len(od)}

Contains(od, key) == key \in Keys(od)

Item(od, key) == od[CHOOSE i \in 1..Len(od) : od[i].key = key]

Without(od, key) == SelectSeq(od, LAMBDA e : e.key # key)

MoveToEnd(od, key) == Without(od, key) \o <<Item(od, key)>>

PopItemFirst(od) == Tail(od)

PopItemLast(od) == SubSeq(od, 1, Len(od) - 1)

\* cache[key] = item: an existing key keeps its position, a new key is appended
SetItem(od, key, item) ==
    IF Contains(od, key)
    THEN [i \in 1..Len(od) |-> IF od[i].key = key THEN item ELSE od[i]]
    ELSE Append(od, item)

\* TTLCache.__init__
TTLCacheNew(maxsize, ttl) == [maxsize |-> maxsize, ttl |-> ttl, cache |-> << >>]

\* a get that returns the stale value as a HIT (no expiry test)
TTLCacheGetNoExpiry(c, key, t) ==
    IF ~Contains(c.cache, key)
    THEN [value |-> None, status |-> "MISS", c |-> c]
    ELSE [value |-> Item(c.cache, key).value, status |-> "HIT",
          c |-> [c EXCEPT !.cache = MoveToEnd(c.cache, key)]]

\* a get that leaves the order alone on a HIT
TTLCacheGetNoMove(c, key, t) ==
    IF ~Contains(c.cache, key)
    THEN [value |-> None, status |-> "MISS", c |-> c]
    ELSE LET e == Item(c.cache, key)
         IN  [value |-> e.value, c |-> c,
              status |-> IF t > e.exp THEN "EXPIRED" ELSE "HIT"]

\* a get that deletes the entry it finds expired
TTLCacheGetDropsExpired(c, key, t) ==
    IF ~Contains(c.cache, key)
    THEN [value |-> None, status |-> "MISS", c |-> c]
    ELSE LET e == Item(c.cache, key)
         IN  IF t > e.exp
             THEN [value |-> e.value, status |-> "EXPIRED",
                   c |-> [c EXCEPT !.cache = Without(c.cache, key)]]
             ELSE [value |-> e.value, status |-> "HIT",
                   c |-> [c EXCEPT !.cache = MoveToEnd(c.cache, key)]]

\* TTLCache.get at time t: the (value, status) returned and the cache after
TTLCacheGet(c, key, t) ==
    IF ~Contains(c.cache, key)
    THEN [value |-> None, status |-> "MISS", c |-> c]
    ELSE LET e == Item(c.cache, key)
         IN  IF t > e.exp
             THEN [value |-> e.value, status |-> "EXPIRED", c |-> c]
             ELSE [value |-> e.value, status |-> "HIT",
                   c |-> [c EXCEPT !.cache = MoveToEnd(c.cache, key)]]

\* a set that never evicts
TTLCacheSetNoEvict(c, key, value, t) ==
    LET e == [key |-> key, value |-> value, exp |-> t + c.ttl]
    IN  [c EXCEPT !.cache = MoveToEnd(SetItem(c.cache, key, e), key)]

\* TTLCache.set at time t: the cache after
TTLCacheSet(c, key, value, t) ==
    LET popped == IF Len(c.cache) >= c.maxsize
                  THEN PopItemFirst(c.cache) ELSE c.cache
        e == [key |-> key, value |-> value, exp |-> t + c.ttl]
    IN  [c EXCEPT !.cache = MoveToEnd(SetItem(popped, key, e), key)]

\* a get_cache that replaces the chain's cache when the ttl differs
GetCacheLastTtlWins(cs, chain, ttl) ==
    IF chain \notin DOMAIN cs \/ cs[chain].ttl # ttl
    THEN [c \in DOMAIN cs \cup {chain} |->
             IF c = chain THEN TTLCacheNew(MaxSize, ttl) ELSE cs[c]]
    ELSE cs

\* ChainSpecificTTLCache.get_cache: the registry after (the cache returned is
\* the registry's entry for the chain)
GetCache(cs, chain, ttl) ==
    IF chain \notin DOMAIN cs
    THEN [c \in DOMAIN cs \cup {chain} |->
             IF c = chain THEN TTLCacheNew(MaxSize, ttl) ELSE cs[c]]
    ELSE cs

\* ------------------------------------------------- the cache on its own
\* One TTLCache, under any sequence of get and set calls and clock ticks.
\* get and set contain no await, so calls from concurrent requests on the
\* one event loop interleave as whole calls.
CacheKeys == 1..(MaxSize + 1)
CacheTTLs == {1, 2}
MaxSets == MaxSize + 1
\* every set call stores a value of its own: the n-th call stores n
CacheValues == {[result |-> n] : n \in 1..MaxSets}
Harness == "eth"

TheCache == caches[Harness]

NoCall == [op |-> "none", key |-> 0, value |-> None, status |-> "none",
           t |-> 0]

\* what the callers have done so far: the keys of the set calls in order,
\* whether a get has returned HIT between them, the keys by recency of use,
\* and per key the value and time of its
\* latest set
NoOps == [sets |-> << >>, hit |-> FALSE, use |-> << >>,
          stored |-> [k \in CacheKeys |-> None]]

\* the keys set so far, the least recently used first, where a set and a get
\* that returns HIT are the uses of a key
Used(use, key) == SelectSeq(use, LAMBDA k : k # key) \o <<key>>

InitCache ==
    /\ \E ttl \in CacheTTLs : caches = GetCache(<< >>, Harness, ttl)
    /\ now = 0
    /\ req = << >>
    /\ ops = NoOps
    /\ last = NoCall
    /\ kd = << >>
    /\ cache_statuses = << >>
    /\ last_ratio_log = 0
    /\ ws = << >>

\* a request calls cache.set(key, value)
CacheSet(key, value) ==
    /\ Len(ops.sets) < MaxSets
    /\ value = [result |-> Len(ops.sets) + 1]
    /\ caches' = [caches EXCEPT ![Harness] = TTLCacheSet(@, key, value, now)]
    /\ ops' = [ops EXCEPT !.sets = Append(@, key),
                          !.use = Used(@, key),
                          !.stored[key] = [value |-> value, t |-> now]]
    /\ last' = [op |-> "set", key |-> key, value |-> value, status |-> "none",
                t |-> now]
    /\ UNCHANGED <<now, req, kd, cache_statuses, last_ratio_log, ws>>

\* a request calls cache.get(key)
CacheGet(key) ==
    LET r == TTLCacheGet(TheCache, key, now)
    IN  /\ caches' = [caches EXCEPT ![Harness] = r.c]
        /\ ops' = [ops EXCEPT
                       !.hit = @ \/ (r.status = "HIT" /\ Len(ops.sets) < MaxSets),
                       !.use = IF r.status = "HIT" THEN Used(@, key) ELSE @]
        /\ last' = [op |-> "get", key |-> key, value |-> r.value,
                    status |-> r.status, t |-> now]
        /\ UNCHANGED <<now, req, kd, cache_statuses, last_ratio_log, ws>>

\* time passes
Tick ==
    /\ now < MaxTime
    /\ now' = now + 1
    /\ UNCHANGED <<caches, req, ops, last, kd, cache_statuses,
                   last_ratio_log, ws>>

NextCache ==
    \/ \E key \in CacheKeys, value \in CacheValues : CacheSet(key, value)
    \/ \E key \in CacheKeys : CacheGet(key)
    \/ Tick

SpecCache == InitCache /\ [][NextCache]_vars

\* -------------------------------------------------- claims on the cache
Distinct(seq) == \A i, j \in 1..Len(seq) : seq[i] = seq[j] => i = j

Range(seq) == {seq[i] : i \in 1..Len(seq)}

\* C4: under any interleaving of get and set calls the cache holds at most
\* maxsize entries, no key twice, and a get returns either the value of a
\* complete stored (value, expiry) entry of its key or (None, MISS) for a
\* key that is not stored.
C4_SizeAndWholeEntries ==
    /\ Len(TheCache.cache) <= TheCache.maxsize
    /\ Distinct([i \in 1..Len(TheCache.cache) |-> TheCache.cache[i].key])
    /\ \A i \in 1..Len(TheCache.cache) :
           /\ DOMAIN TheCache.cache[i] = {"key", "value", "exp"}
           /\ TheCache.cache[i].value \in CacheValues
           /\ TheCache.cache[i].exp \in Int
    /\ last.op = "get" =>
           \/ /\ last.status = "MISS"
              /\ last.value = None
              /\ ~Contains(TheCache.cache, last.key)
           \/ /\ last.status \in {"HIT", "EXPIRED"}
              /\ Contains(TheCache.cache, last.key)
              /\ Item(TheCache.cache, last.key).value = last.value

\* a get HITs on a full cache after an eviction
C4_Witness ==
    /\ Len(ops.sets) = MaxSize + 1
    /\ Len(TheCache.cache) = TheCache.maxsize
    /\ last.op = "get"
    /\ last.status = "HIT"

\* C5: a get of a key that was set and is still stored (not evicted since
\* its latest set) returns the value of that set, with HIT when less than
\* the TTL has elapsed since the set and with EXPIRED when more than the TTL
\* has elapsed; a get of a key that is not stored returns (None, MISS).
C5_HitThenExpired ==
    last.op = "get" =>
        IF Contains(TheCache.cache, last.key)
        THEN LET s == ops.stored[last.key]
             IN  /\ s # None
                 /\ last.value = s.value
                 /\ last.t - s.t < TheCache.ttl => last.status = "HIT"
                 /\ last.t - s.t > TheCache.ttl => last.status = "EXPIRED"
        ELSE last.value = None /\ last.status = "MISS"

\* a get returns the value with EXPIRED after more than the TTL
C5_Witness ==
    /\ last.op = "get"
    /\ last.status = "EXPIRED"
    /\ ops.stored[last.key] # None
    /\ last.value = ops.stored[last.key].value
    /\ last.t - ops.stored[last.key].t > TheCache.ttl

\* maxSize + 1 distinct keys have been set into the initially empty cache
InsertedOneTooMany == Len(ops.sets) = MaxSize + 1 /\ Distinct(ops.sets)

Entries(c) == {c.cache[i] : i \in 1..Len(c.cache)}

\* a step that is a call of set: the key set is last'.key
C15_Step ==
    ops'.sets # ops.sets =>
        LET key == last'.key
            before == TheCache
            after == caches'[Harness]
        IN  /\ Contains(after.cache, key)
            /\ Item(after.cache, key).value = last'.value
            /\ Item(after.cache, key).exp = now + before.ttl
            /\ Contains(before.cache, key) =>
                   \A e \in Entries(before) : e.key # key => e \in Entries(after)
            /\ (~Contains(before.cache, key)
                    /\ Len(before.cache) < before.maxsize) =>
                   Entries(before) \subseteq Entries(after)
            /\ (~Contains(before.cache, key)
                    /\ Len(before.cache) >= before.maxsize) =>
                   Cardinality(Entries(before) \ Entries(after)) = 1

\* C15 as stated: set evicts an entry only when its key is not stored and
\* the cache holds maxsize entries; a set of a key that is stored replaces
\* that key's value and expiry and leaves every other entry in the cache.
C15_OverwriteKeepsTheOthers == [][C15_Step]_vars

\* a step that is not a call of set (a call of get, or the clock's)
C16_Step == ops'.sets = ops.sets => Entries(caches'[Harness]) = Entries(TheCache)

\* C16: get changes neither the keys stored nor the value or expiry of any
\* entry, whatever status it returns: an entry found EXPIRED stays in the
\* cache and keeps its slot.
C16_GetKeepsEntries == [][C16_Step]_vars

\* a get returned EXPIRED on a full cache, which still holds the entry
C16_Witness ==
    /\ last.op = "get"
    /\ last.status = "EXPIRED"
    /\ Len(TheCache.cache) = TheCache.maxsize
    /\ Contains(TheCache.cache, last.key)
    /\ last.t > Item(TheCache.cache, last.key).exp

\* ------------------------------------------- the registry on its own
\* The callers of the registry: every request calls get_cache(chain, ttl)
\* and then get or set on the cache returned.  The ttl is the caller's
\* argument, which need not be the one the chain's cache was created with.
RegistryChains == {"eth", "bsc"}
RegistryTTLs == {1, 2}
RegistryKeys == {1, 2}

InitRegistry ==
    /\ caches = << >>
    /\ now = 0
    /\ req = << >>
    /\ ops = [sets |-> 0]
    /\ last = NoCall
    /\ kd = << >>
    /\ cache_statuses = << >>
    /\ last_ratio_log = 0
    /\ ws = << >>

\* a caller calls get_cache(chain, ttl)
RegistryGetCache(chain, ttl) ==
    /\ caches' = GetCache(caches, chain, ttl)
    /\ last' = [op |-> "get_cache", chain |-> chain, ttl |-> ttl]
    /\ UNCHANGED <<now, req, ops, kd, cache_statuses, last_ratio_log, ws>>

\* a caller calls get_cache(chain, ttl).set(key, value)
RegistrySet(chain, ttl, key) ==
    /\ ops.sets < MaxSets
    /\ caches' = [GetCache(caches, chain, ttl) EXCEPT
                      ![chain] = TTLCacheSet(@, key, [result |-> ops.sets + 1],
                                             now)]
    /\ ops' = [sets |-> ops.sets + 1]
    /\ last' = [op |-> "set", chain |-> chain, ttl |-> ttl]
    /\ UNCHANGED <<now, req, kd, cache_statuses, last_ratio_log, ws>>

NextRegistry ==
    \/ \E chain \in RegistryChains, ttl \in RegistryTTLs :
           RegistryGetCache(chain, ttl)
    \/ \E chain \in RegistryChains, ttl \in RegistryTTLs, key \in RegistryKeys :
           RegistrySet(chain, ttl, key)
    \/ Tick

SpecRegistry == InitRegistry /\ [][NextRegistry]_vars

\* a step of the registry's callers
C13_Step ==
    /\ DOMAIN caches \subseteq DOMAIN caches'
    /\ \A c \in DOMAIN caches :
           /\ caches'[c].ttl = caches[c].ttl
           /\ caches'[c].maxsize = caches[c].maxsize
           /\ (c # last'.chain \/ last'.op = "get_cache") =>
                  caches'[c] = caches[c]
    /\ \A c \in DOMAIN caches' \ DOMAIN caches :
           /\ c = last'.chain
           /\ caches'[c].ttl = last'.ttl

\* C13: the registry holds one cache per chain and the first TTL wins: the
\* cache that the first get_cache(chain, ttl1) creates has the TTL ttl1, and
\* every later get_cache(chain, ttl2) leaves it as it is, with its ttl, its
\* maxsize and its entries; no cache is ever removed from the registry.
C13_FirstTtlWins == [][C13_Step]_vars

\* get_cache was called with another TTL than the one of the chain's cache,
\* which holds an entry
C13_Witness ==
    /\ last.op = "get_cache"
    /\ last.chain \in DOMAIN caches
    /\ caches[last.chain].ttl # last.ttl
    /\ caches[last.chain].cache # << >>

\* ------------------------------------------- src/main.py: cache key
\* An RPC call is a dict with the keys "method", "params" and "id", all
\* values small integers.  A request body is a tagged value: a single call
\* (list = FALSE, one item) or a batch (list = TRUE, the items in order).
Single(call) == [list |-> FALSE, items |-> <<call>>]

Batch(calls) == [list |-> TRUE, items |-> calls]

\* dict.pop(k, None) on a dict: the dict after
Pop(d, k) == [x \in DOMAIN d \ {k} |-> d[x]]

\* d[k] = v on a dict: the dict after
Put(d, k, v) == [x \in DOMAIN d \cup {k} |-> IF x = k THEN v ELSE d[x]]

\* the dict keys in use, in the order of Python's string comparison
FieldOrder == <<"error", "id", "method", "params", "result">>

Rank(k) == CHOOSE i \in 1..Len(FieldOrder) : FieldOrder[i] = k

\* the characters of a serialised dict: a key is its rank, a value is
\* itself, and of the two delimiters "," sorts before "}"
Comma == 0
Close == 1

\* the keys of a dict as a sorted list (sort_keys=True)
RECURSIVE SortedKeys(_)
SortedKeys(ks) ==
    IF ks = {} THEN << >>
    ELSE LET k == CHOOSE x \in ks : \A y \in ks : Rank(x) <= Rank(y)
         IN  <<k>> \o SortedKeys(ks \ {k})

RECURSIVE DumpItems(_, _)
DumpItems(d, ks) ==
    IF ks = << >> THEN <<Close>>
    ELSE <<Rank(Head(ks)), d[Head(ks)]>>
         \o (IF Len(ks) > 1 THEN <<Comma>> ELSE << >>)
         \o DumpItems(d, Tail(ks))

\* json.dumps(d, sort_keys=True): the string, as its sequence of characters
JsonDumps(d) == DumpItems(d, SortedKeys(DOMAIN d))

\* Python's str comparison a < b
RECURSIVE StrLess(_, _)
StrLess(a, b) ==
    IF b = << >> THEN FALSE
    ELSE IF a = << >> THEN TRUE
    ELSE IF Head(a) # Head(b) THEN Head(a) < Head(b)
    ELSE StrLess(Tail(a), Tail(b))

RECURSIVE Insert(_, _)
Insert(x, sorted) ==
    IF sorted = << >> THEN <<x>>
    ELSE IF StrLess(x, Head(sorted)) THEN <<x>> \o sorted
    ELSE <<Head(sorted)>> \o Insert(x, Tail(sorted))

\* sorted(strs)
RECURSIVE PySorted(_)
PySorted(strs) ==
    IF strs = << >> THEN << >>
    ELSE Insert(Head(strs), PySorted(Tail(strs)))

\* the character ":"
Colon == 2

\* ':'.join(strs)
RECURSIVE Join(_)
Join(strs) ==
    IF strs = << >> THEN << >>
    ELSE IF Len(strs) = 1 THEN Head(strs)
    ELSE Head(strs) \o <<Colon>> \o Join(Tail(strs))

\* hashlib.md5(content).hexdigest(): the digest is taken to be free of
\* collisions, so it is the content under a tag
Md5(content) == [md5 |-> content]

\* f"{chain}:{text}"
KeyContent(chain, text) == <<chain, Colon, text>>

\* key derivation that leaves the id in
GenerateCacheKeyWithId(chain, body) ==
    [body |-> body,
     key |-> IF body.list
             THEN Md5(KeyContent(chain, Join(PySorted(
                      [i \in 1..Len(body.items) |-> JsonDumps(body.items[i])]))))
             ELSE Md5(KeyContent(chain, JsonDumps(body.items[1])))]

\* key derivation that pops the id from the caller's dicts (no copy)
GenerateCacheKeyNoCopy(chain, body) ==
    LET popped == [i \in 1..Len(body.items) |-> Pop(body.items[i], "id")]
    IN  [body |-> [body EXCEPT !.items = popped],
         key |-> IF body.list
                 THEN Md5(KeyContent(chain, Join(PySorted(
                          [i \in 1..Len(popped) |-> JsonDumps(popped[i])]))))
                 ELSE Md5(KeyContent(chain, JsonDumps(popped[1])))]

\* key derivation that joins the batch in the order given (no sorted)
GenerateCacheKeyUnsorted(chain, body) ==
    LET cleaned == [i \in 1..Len(body.items) |->
                       JsonDumps(Pop(body.items[i], "id"))]
    IN  [body |-> body,
         key |-> IF body.list
                 THEN Md5(KeyContent(chain, Join(cleaned)))
                 ELSE Md5(KeyContent(chain, cleaned[1]))]

\* JSONRPCCacheProxy.generate_cache_key: the key returned, and the caller's
\* body as the call leaves it (each dict is copied before its id is popped)
GenerateCacheKey(chain, body) ==
    IF body.list
    THEN LET cleaned_bodies == [i \in 1..Len(body.items) |->
                                   JsonDumps(Pop(body.items[i], "id"))]
         IN  [body |-> body,
              key |-> Md5(KeyContent(chain, Join(PySorted(cleaned_bodies))))]
    ELSE LET body_copy == Pop(body.items[1], "id")
         IN  [body |-> body,
              key |-> Md5(KeyContent(chain, JsonDumps(body_copy)))]

\* --------------------------------------- key derivation on its own
\* Calls with and without "params" and "id"; batches up to MaxKeyBatch.
MaxKeyBatch == 2
KeyChains == {"eth", "bsc"}
KeyMethods == {1, 2}
KeyParams == {0}
KeyIds == {1, 2}

KeyCalls ==
    {[method |-> m] : m \in KeyMethods}
    \cup {[method |-> m, params |-> p] : m \in KeyMethods, p \in KeyParams}
    \cup {[method |-> m, id |-> i] : m \in KeyMethods, i \in KeyIds}
    \cup {[method |-> m, params |-> p, id |-> i] :
             m \in KeyMethods, p \in KeyParams, i \in KeyIds}

SeqsUpTo(S, n) == UNION {[1..k -> S] : k \in 0..n}

KeyBodies ==
    {Single(c) : c \in KeyCalls}
    \cup {Batch(cs) : cs \in SeqsUpTo(KeyCalls, MaxKeyBatch)}

\* two calls that are the same but for the value or presence of their id
SameButId(a, b) ==
    /\ DOMAIN a \ {"id"} = DOMAIN b \ {"id"}
    /\ \A f \in DOMAIN a \ {"id"} : a[f] = b[f]

\* a call under another id (0: without an id)
KeyIdChoices == KeyIds \cup {0}

WithId(call, id) == IF id = 0 THEN Pop(call, "id") ELSE Put(call, "id", id)

\* body under the ids chosen per item
ReId(body, ids) ==
    [body EXCEPT !.items = [i \in 1..Len(body.items) |->
                               WithId(body.items[i], ids[i])]]

\* the permutations of 1..n
IndexOrders(n) ==
    {f \in [1..n -> 1..n] : \A i, j \in 1..n : f[i] = f[j] => i = j}

\* the batch with its items in the order f
Permuted(body, f) ==
    [body EXCEPT !.items = [i \in 1..Len(body.items) |-> body.items[f[i]]]]

InitKey ==
    /\ \E chain \in KeyChains, body \in KeyBodies :
           kd = [chain |-> chain, body |-> body, rel |-> "none",
                 derived |-> FALSE]
    /\ caches = << >>
    /\ now = 0
    /\ req = << >>
    /\ ops = << >>
    /\ last = << >>
    /\ cache_statuses = << >>
    /\ last_ratio_log = 0
    /\ ws = << >>

\* the key of kd.body, and of a second body in the relation rel to it, are
\* derived for chain2
Derive(rel, chain2, body2) ==
    /\ ~kd.derived
    /\ LET r1 == GenerateCacheKey(kd.chain, kd.body)
           r2 == GenerateCacheKey(chain2, body2)
       IN  kd' = [chain |-> kd.chain, body |-> kd.body, rel |-> rel,
                  derived |-> TRUE, key |-> r1.key, after |-> r1.body,
                  chain2 |-> chain2, body2 |-> body2,
                  key2 |-> r2.key, after2 |-> r2.body]
    /\ UNCHANGED <<caches, now, req, ops, last, cache_statuses,
                   last_ratio_log, ws>>

\* the same calls under other ids
DeriveReId ==
    \E ids \in [1..Len(kd.body.items) -> KeyIdChoices] :
        Derive("reid", kd.chain, ReId(kd.body, ids))

\* the same batch in another order
DerivePermutation ==
    /\ kd.body.list
    /\ \E f \in IndexOrders(Len(kd.body.items)) :
           Derive("perm", kd.chain, Permuted(kd.body, f))

\* the same body on another chain
DeriveOtherChain ==
    \E chain2 \in KeyChains \ {kd.chain} : Derive("chain", chain2, kd.body)

NextKey ==
    \/ DeriveReId
    \/ DerivePermutation
    \/ DeriveOtherChain

SpecKey == InitKey /\ [][NextKey]_vars

\* C7: calls that differ only in the value or presence of their id, single
\* or as the elements of a batch, have the same key on a chain, and key
\* derivation leaves the caller's call objects as they were.
C7_KeyIgnoresId ==
    kd.derived =>
        /\ kd.after = kd.body
        /\ kd.after2 = kd.body2
        /\ kd.rel = "reid" => kd.key2 = kd.key

\* keys were derived for a batch and for the same batch under other ids
C7_Witness ==
    /\ kd.derived
    /\ kd.rel = "reid"
    /\ kd.body.list
    /\ Len(kd.body.items) = 2
    /\ \E i \in 1..2 : "id" \in DOMAIN kd.body.items[i]
                       /\ "id" \notin DOMAIN kd.body2.items[i]
    /\ \E i \in 1..2 : /\ "id" \in DOMAIN kd.body.items[i]
                       /\ "id" \in DOMAIN kd.body2.items[i]
                       /\ kd.body.items[i].id # kd.body2.items[i].id

\* C8: the key of a batch is the key of every permutation of the batch.
C8_KeyIgnoresOrder ==
    (kd.derived /\ kd.rel = "perm") => kd.key2 = kd.key

\* keys were derived for a batch and for the batch in another order
C8_Witness ==
    /\ kd.derived
    /\ kd.rel = "perm"
    /\ kd.body2 # kd.body
    /\ \E i \in 1..Len(kd.body.items) :
           ~SameButId(kd.body.items[i], kd.body2.items[i])

\* ------------------------------- src/main.py: handle_http_request
\* config.RPC_URL (its keys) and config.CACHE_TTL, as load_rpc_configs
\* leaves them: every chain with an RPC URL has a TTL
RPC_URL == {"eth", "bsc"}

CACHE_TTL == [c \in RPC_URL |-> IF c = "eth" THEN 1 ELSE 2]

\* the chains clients address: the configured ones and one that is not
Chains == RPC_URL \cup {"xyz"}

\* each handler serves one request; they run concurrently on the event
\* loop and are started in the order of their numbers
Handlers == {1, 2}
Methods == {1, 2, 3}
Ids == {1, 2}
BatchLengths == 0..2

\* the RPC calls clients send
Calls == {[method |-> m, params |-> 0, id |-> i] : m \in Methods, i \in Ids}

\* the calls clients send in batches
BatchCalls == {c \in Calls : c.method \in {1, 2}}

Bodies ==
    {Single(c) : c \in Calls}
    \cup {Batch(cs) : cs \in UNION {[1..n -> BatchCalls] : n \in BatchLengths}}

\* the request bodies sent to a chain: every body to "eth", the calls of
\* batches as single calls or as batches of one to the other chains
BodiesOf(chain) ==
    IF chain = "eth" THEN Bodies
    ELSE {b \in Bodies : Len(b.items) <= 1 /\ b.items \in Seq(BatchCalls)}

\* the upstream's JSON-RPC answer to a call on a chain at time t: it carries
\* the call's id, and its result is determined by the chain, the call
\* without its id, and the time
UpstreamResponse(chain, call, t) ==
    [id |-> call.id,
     result |-> [chain |-> chain, call |-> Pop(call, "id"), at |-> t]]

\* the JSON body an upstream sends along with an HTTP error status
UpstreamErrorBody == [error |-> 1]

\* the locals of a handler that has not started
Idle ==
    [pc |-> "idle", chain |-> "", body |-> Batch(<< >>),
     statuses |-> << >>, cached |-> None,
     batch_request |-> << >>, batch_response |-> << >>,
     cache_key_map |-> << >>, cache_status |-> "",
     upstream |-> << >>, fail |-> "none", rpc_response |-> None,
     sets |-> << >>, http |-> "",
     final_response |-> None, final_cache_key |-> None]

\* the branch of process_single_request that forwards the call also on a HIT
LookupResultAlwaysSend(rpc_request, cache_key, g) ==
    [response |-> IF g.status = "HIT"
                  THEN Put(g.value, "id", rpc_request.id) ELSE None,
     status |-> g.status, key |-> cache_key, to_send |-> rpc_request,
     cached |-> g.value, c |-> g.c]

\* the branch that returns the cached response under its stored id
LookupResultKeepId(rpc_request, cache_key, g) ==
    IF g.status = "HIT"
    THEN [response |-> g.value, status |-> g.status, key |-> cache_key,
          to_send |-> None, cached |-> g.value, c |-> g.c]
    ELSE [response |-> None, status |-> g.status, key |-> cache_key,
          to_send |-> rpc_request, cached |-> g.value, c |-> g.c]

\* the branch that serves an expired value instead of forwarding the call
LookupResultServeStale(rpc_request, cache_key, g) ==
    IF g.status # "MISS"
    THEN [response |-> Put(g.value, "id", rpc_request.id),
          status |-> g.status, key |-> cache_key,
          to_send |-> None, cached |-> g.value, c |-> g.c]
    ELSE [response |-> None, status |-> g.status, key |-> cache_key,
          to_send |-> rpc_request, cached |-> g.value, c |-> g.c]

\* the branch of process_single_request on the result g of the lookup: the
\* tuple returned (response, status, key, request to send), with the value
\* the lookup returned and the cache after the lookup
LookupResult(rpc_request, cache_key, g) ==
    IF g.status = "HIT"
    THEN [response |-> Put(g.value, "id", rpc_request.id),
          status |-> g.status, key |-> cache_key,
          to_send |-> None, cached |-> g.value, c |-> g.c]
    ELSE [response |-> None, status |-> g.status, key |-> cache_key,
          to_send |-> rpc_request, cached |-> g.value, c |-> g.c]

\* the key of a single call
CallKey(chain, rpc_request) == GenerateCacheKey(chain, Single(rpc_request)).key

\* process_single_request on the chain's cache c at time t
ProcessSingleRequest(c, chain, rpc_request, t) ==
    LookupResult(rpc_request, CallKey(chain, rpc_request),
                 TTLCacheGet(c, CallKey(chain, rpc_request), t))

\* a loop body that keeps one key for all the ids: the latest
BatchStepLastKey(acc, r) ==
    [c |-> r.c,
     cache_key_map |->
         IF Truthy(r.to_send)
         THEN [i \in DOMAIN acc.cache_key_map \cup {r.to_send.id} |-> r.key]
         ELSE acc.cache_key_map,
     batch_request |->
         IF Truthy(r.to_send) THEN Append(acc.batch_request, r.to_send)
         ELSE acc.batch_request,
     batch_response |->
         IF Truthy(r.response) THEN Append(acc.batch_response, r.response)
         ELSE acc.batch_response,
     cache_status |->
         IF r.status # "HIT"
         THEN (IF r.status = "MISS" THEN "MISS" ELSE "EXPIRED")
         ELSE acc.cache_status,
     statuses |-> Append(acc.statuses, r.status)]

\* the body of the loop over the elements of a batch, for the element whose
\* process_single_request returned r: the handler's locals after
BatchStep(acc, r) ==
    [c |-> r.c,
     cache_key_map |->
         IF Truthy(r.to_send) THEN Put(acc.cache_key_map, r.to_send.id, r.key)
         ELSE acc.cache_key_map,
     batch_request |->
         IF Truthy(r.to_send) THEN Append(acc.batch_request, r.to_send)
         ELSE acc.batch_request,
     batch_response |->
         IF Truthy(r.response) THEN Append(acc.batch_response, r.response)
         ELSE acc.batch_response,
     cache_status |->
         IF r.status # "HIT"
         THEN (IF r.status = "MISS" THEN "MISS" ELSE "EXPIRED")
         ELSE acc.cache_status,
     statuses |-> Append(acc.statuses, r.status)]

\* the loop over the elements of a batch: acc holds the chain's cache and
\* the handler's locals
RECURSIVE BatchLoop(_, _, _, _)
BatchLoop(acc, chain, items, t) ==
    IF items = << >> THEN acc
    ELSE BatchLoop(
             BatchStep(acc, ProcessSingleRequest(acc.c, chain, Head(items), t)),
             chain, Tail(items), t)

\* the locals before the loop
BatchStart(c) ==
    [c |-> c, cache_key_map |-> << >>, batch_request |-> << >>,
     batch_response |-> << >>, cache_status |-> "HIT", statuses |-> << >>]

\* a registry that creates the chain's cache before the chain is checked
RegistryAfterCheckCreatesFirst(cs, chain) ==
    GetCache(cs, chain, IF chain \in RPC_URL THEN CACHE_TTL[chain] ELSE 0)

\* the registry after the chain check and the get_cache of a request
RegistryAfterCheck(cs, chain) ==
    IF chain \notin RPC_URL THEN cs
    ELSE GetCache(cs, chain, CACHE_TTL[chain])

\* the locals of a handler that returns final_response with status 200
Finished(r, final_response, final_cache_key) ==
    [r EXCEPT !.pc = "done", !.http = "200",
              !.final_response = final_response,
              !.final_cache_key = final_cache_key]

\* a batch after its loop: the upstream call, if any element is to be sent,
\* or else the return
AfterBatchLoop(cs, r0, acc) ==
    [caches |-> [cs EXCEPT ![r0.chain] = acc.c],
     r |-> IF Truthy(acc.batch_request)
           THEN [r0 EXCEPT !.pc = "fetching",
                           !.statuses = acc.statuses,
                           !.batch_request = acc.batch_request,
                           !.batch_response = acc.batch_response,
                           !.cache_key_map = acc.cache_key_map,
                           !.cache_status = acc.cache_status,
                           !.upstream = <<Batch(acc.batch_request)>>]
           ELSE Finished([r0 EXCEPT !.statuses = acc.statuses,
                                    !.batch_response = acc.batch_response,
                                    !.cache_status = acc.cache_status],
                         acc.batch_response,
                         GenerateCacheKey(r0.chain, r0.body).key)]

\* a single call after its lookup: the upstream call, or else the return
AfterSingleLookup(cs, r0, s) ==
    [caches |-> [cs EXCEPT ![r0.chain] = s.c],
     r |-> IF Truthy(s.to_send)
           THEN [r0 EXCEPT !.pc = "fetching",
                           !.statuses = <<s.status>>,
                           !.cached = s.cached,
                           !.cache_status = s.status,
                           !.final_cache_key = s.key,
                           !.upstream = <<Single(s.to_send)>>]
           ELSE Finished([r0 EXCEPT !.statuses = <<s.status>>,
                                    !.cached = s.cached,
                                    !.cache_status = s.status],
                         s.response, s.key)]

\* the request for a chain that passed the check, with the registry cs
\* after get_cache
HandleConfigured(cs, r0, t) ==
    IF r0.body.list
    THEN AfterBatchLoop(cs, r0,
             BatchLoop(BatchStart(cs[r0.chain]), r0.chain, r0.body.items, t))
    ELSE AfterSingleLookup(cs, r0,
             ProcessSingleRequest(cs[r0.chain], r0.chain, r0.body.items[1], t))

\* handle_http_request from its start to its first suspension (the upstream
\* call) or else to its return: the registry and the handler's locals after
HandleStart(cs, chain, body, t) ==
    IF chain \notin RPC_URL
    THEN [caches |-> RegistryAfterCheck(cs, chain),
          r |-> [Idle EXCEPT !.chain = chain, !.body = body,
                             !.pc = "done", !.http = "404"]]
    ELSE HandleConfigured(RegistryAfterCheck(cs, chain),
                          [Idle EXCEPT !.chain = chain, !.body = body], t)

\* the body of the loop over the upstream's answers to a batch: the answer
\* is stored under the key its id maps to and appended to the response
StoreStep(acc, sub_response, sub_cache_key, t) ==
    [c |-> TTLCacheSet(acc.c, sub_cache_key, sub_response, t),
     batch_response |-> Append(acc.batch_response, sub_response),
     sets |-> Append(acc.sets, sub_cache_key)]

RECURSIVE StoreLoop(_, _, _, _)
StoreLoop(acc, rpc_response, cache_key_map, t) ==
    IF rpc_response = << >> THEN acc
    ELSE StoreLoop(
             StoreStep(acc, Head(rpc_response),
                       cache_key_map[Head(rpc_response).id], t),
             Tail(rpc_response), cache_key_map, t)

\* a batch after the loop over the upstream's answers
AfterStoreLoop(cs, r, rpc_response, acc) ==
    [caches |-> [cs EXCEPT ![r.chain] = acc.c],
     r |-> Finished([r EXCEPT !.rpc_response = rpc_response,
                              !.batch_response = acc.batch_response,
                              !.sets = acc.sets],
                    acc.batch_response,
                    GenerateCacheKey(r.chain, r.body).key)]

\* handle_http_request from the return of fetch_from_rpc with rpc_response
\* to its own return: the registry and the handler's locals after
HandleResponse(cs, r, rpc_response, t) ==
    IF r.body.list
    THEN AfterStoreLoop(cs, r, rpc_response,
             StoreLoop([c |-> cs[r.chain],
                        batch_response |-> r.batch_response, sets |-> << >>],
                       rpc_response, r.cache_key_map, t))
    ELSE [caches |-> [cs EXCEPT ![r.chain] =
                         TTLCacheSet(@, r.final_cache_key, rpc_response, t)],
          r |-> Finished([r EXCEPT !.rpc_response = rpc_response,
                                   !.sets = <<r.final_cache_key>>],
                         rpc_response, r.final_cache_key)]

\* the locals of a handler whose request ends with an exception
Raised(r, fail, http) == [r EXCEPT !.pc = "done", !.fail = fail, !.http = http]

\* what the upstream answers to the payload sent, a batch in the order f
Answer(chain, sent, f, t) ==
    IF sent.list
    THEN [i \in 1..Len(sent.items) |->
             UpstreamResponse(chain, sent.items[f[i]], t)]
    ELSE UpstreamResponse(chain, sent.items[1], t)

\* deque(maxlen=1000)
RatioWindow == 1000

\* deque.append(x): a full deque drops its oldest element
DequeAppend(d, x) ==
    IF Len(d) >= RatioWindow THEN Append(Tail(d), x) ELSE Append(d, x)

\* the interval of the ratio log, in seconds
RatioLogInterval == 10

\* _log_cache_ratio at time t: last_ratio_log after
LogCacheRatio(last_log, t) ==
    IF t - last_log >= RatioLogInterval THEN t ELSE last_log

\* the handler with the locals r has run the end of handle_http_request
\* (lines 141-159), which only a handler that raised nothing reaches
ReachedReturn(r) == r.pc = "done" /\ r.http = "200"

\* handler p goes on with the registry and the locals h; at the end of
\* handle_http_request it appends its status and calls _log_cache_ratio
Becomes(p, h) ==
    /\ caches' = h.caches
    /\ req' = [req EXCEPT ![p] = h.r]
    /\ cache_statuses' =
           IF ReachedReturn(h.r)
           THEN DequeAppend(cache_statuses, h.r.cache_status)
           ELSE cache_statuses
    /\ last_ratio_log' =
           IF ReachedReturn(h.r)
           THEN LogCacheRatio(last_ratio_log, now)
           ELSE last_ratio_log

Init ==
    /\ caches = << >>
    /\ now = 0
    /\ req = [p \in Handlers |-> Idle]
    /\ ops = << >>
    /\ last = << >>
    /\ kd = << >>
    /\ cache_statuses = << >>
    /\ last_ratio_log = 0
    /\ ws = << >>

\* handler p receives a request and runs up to the upstream call, or else
\* to its return
StartRequest(p, chain, body) ==
    /\ req[p].pc = "idle"
    /\ \A q \in Handlers : q < p => req[q].pc # "idle"
    /\ body \in BodiesOf(chain)
    /\ Becomes(p, HandleStart(caches, chain, body, now))
    /\ UNCHANGED <<now, ops, last, kd, ws>>

\* the upstream answers every forwarded call, a batch in the order f; the
\* handler stores the answers and returns
FetchOk(p, f) ==
    /\ req[p].pc = "fetching"
    /\ Becomes(p, HandleResponse(caches, req[p],
                   Answer(req[p].chain, req[p].upstream[1], f, now), now))
    /\ UNCHANGED <<now, ops, last, kd, ws>>

\* the upstream call fails with an aiohttp.ClientError (a network error):
\* fetch_from_rpc raises HTTPException(502)
FetchClientError(p) ==
    /\ req[p].pc = "fetching"
    /\ req' = [req EXCEPT ![p] = Raised(@, "network", "502")]
    /\ UNCHANGED <<caches, now, ops, last, kd, cache_statuses,
                   last_ratio_log, ws>>

\* the upstream answers with a body that is not JSON: json.loads raises
\* json.JSONDecodeError, which is no aiohttp.ClientError, so it leaves the
\* handler uncaught and the framework answers 500
FetchNonJson(p) ==
    /\ req[p].pc = "fetching"
    /\ req' = [req EXCEPT ![p] = Raised(@, "non_json", "500")]
    /\ UNCHANGED <<caches, now, ops, last, kd, cache_statuses,
                   last_ratio_log, ws>>

\* the upstream reports a failure: an HTTP error status with a JSON object
\* as its body.  The status is never read, so the body is the result: a
\* single call stores and returns it; the loop over a batch's answers
\* indexes a key of the object with 'id' and raises TypeError (500)
FetchHttpError(p) ==
    /\ req[p].pc = "fetching"
    /\ IF req[p].body.list
       THEN /\ req' = [req EXCEPT ![p] = Raised(@, "http_error", "500")]
            /\ UNCHANGED <<caches, cache_statuses, last_ratio_log>>
       ELSE Becomes(p, HandleResponse(caches,
                           [req[p] EXCEPT !.fail = "http_error"],
                           UpstreamErrorBody, now))
    /\ UNCHANGED <<now, ops, last, kd, ws>>

Next ==
    \/ \E p \in Handlers, chain \in Chains, body \in Bodies :
           StartRequest(p, chain, body)
    \/ \E p \in Handlers :
           \E f \in IndexOrders(Len(req[p].batch_request)) : FetchOk(p, f)
    \/ \E p \in Handlers : FetchClientError(p)
    \/ \E p \in Handlers : FetchNonJson(p)
    \/ \E p \in Handlers : FetchHttpError(p)
    \/ Tick

Spec == Init /\ [][Next]_vars

\* --------------------------------------------- claims on the requests
\* the elements of a batch whose lookup was not a HIT, in the batch's order
RECURSIVE NotHit(_, _)
NotHit(items, statuses) ==
    IF items = << >> THEN << >>
    ELSE (IF Head(statuses) # "HIT" THEN <<Head(items)>> ELSE << >>)
         \o NotHit(Tail(items), Tail(statuses))

DistinctIds(items) ==
    \A i, j \in 1..Len(items) : items[i].id = items[j].id => i = j

\* C1: a batch for a configured chain issues exactly one upstream call if a
\* lookup of one of its elements was not a HIT, and the call holds exactly
\* the elements whose lookup was MISS or EXPIRED; it issues no upstream call
\* if every lookup was a HIT.
C1_ForwardsExactlyTheMisses ==
    \A p \in Handlers :
        (req[p].pc # "idle" /\ req[p].chain \in RPC_URL /\ req[p].body.list) =>
            /\ Len(req[p].statuses) = Len(req[p].body.items)
            /\ \A i \in 1..Len(req[p].statuses) :
                   req[p].statuses[i] \in {"HIT", "MISS", "EXPIRED"}
            /\ IF \E i \in 1..Len(req[p].statuses) : req[p].statuses[i] # "HIT"
               THEN req[p].upstream =
                        <<Batch(NotHit(req[p].body.items, req[p].statuses))>>
               ELSE req[p].upstream = << >>

\* a batch of two found its first element cached and forwarded the second
C1_Witness ==
    \E p \in Handlers :
        /\ req[p].pc = "done"
        /\ req[p].body.list
        /\ req[p].statuses = <<"HIT", "MISS">>
        /\ req[p].upstream = <<Batch(<<req[p].body.items[2]>>)>>

\* C2: the response to a batch of pairwise distinct ids, every forwarded
\* element answered under its id, holds exactly one response per element
\* of the batch and each element's id on exactly one response.
C2_OneResponsePerId ==
    \A p \in Handlers :
        (/\ req[p].pc = "done"
         /\ req[p].http = "200"
         /\ req[p].fail = "none"
         /\ req[p].body.list
         /\ DistinctIds(req[p].body.items)) =>
            /\ Len(req[p].final_response) = Len(req[p].body.items)
            /\ \A i \in 1..Len(req[p].body.items) :
                   Cardinality({j \in 1..Len(req[p].final_response) :
                       req[p].final_response[j].id = req[p].body.items[i].id}) = 1

\* a batch was answered from a value cached under another id and from the
\* upstream
C2_Witness ==
    \E p \in Handlers :
        /\ req[p].pc = "done"
        /\ req[p].http = "200"
        /\ req[p].body.list
        /\ DistinctIds(req[p].body.items)
        /\ req[p].statuses = <<"HIT", "MISS">>
        /\ LET key == CallKey(req[p].chain, req[p].body.items[1])
               c == caches[req[p].chain].cache
           IN  /\ Contains(c, key)
               /\ "id" \in DOMAIN Item(c, key).value
               /\ Item(c, key).value.id # req[p].body.items[1].id
        /\ Len(req[p].final_response) = 2

\* the steps of handler p on a single call for a configured chain
C3_Step(p) ==
    LET r == req[p]
        r2 == req'[p]
        chain == r2.chain
        call == r2.body.items[1]
        key == CallKey(chain, call)
        fresh == UpstreamResponse(chain, call, now)
    IN  (r2.pc # "idle" /\ chain \in RPC_URL /\ ~r2.body.list) =>
            /\ r.pc = "idle" =>
                   /\ r2.cache_status \in {"HIT", "MISS", "EXPIRED"}
                   /\ r2.cache_status = "HIT" =>
                          /\ r2.pc = "done"
                          /\ r2.upstream = << >>
                          /\ chain \in DOMAIN caches
                          /\ Contains(caches[chain].cache, key)
                          /\ r2.final_response =
                                 Put(Item(caches[chain].cache, key).value,
                                     "id", call.id)
                          /\ Item(caches'[chain].cache, key) =
                                 Item(caches[chain].cache, key)
                          /\ Keys(caches'[chain].cache) = Keys(caches[chain].cache)
                   /\ r2.cache_status # "HIT" =>
                          /\ r2.pc = "fetching"
                          /\ r2.upstream = <<Single(call)>>
            /\ (r.pc = "fetching" /\ r2.pc = "done" /\ r2.fail = "none") =>
                   /\ r2.upstream = <<Single(call)>>
                   /\ r2.final_response = fresh
                   /\ Contains(caches'[chain].cache, key)
                   /\ Item(caches'[chain].cache, key).value = fresh
                   /\ \A t \in now..(now + CACHE_TTL[chain] - 1) :
                          /\ TTLCacheGet(caches'[chain], key, t).status = "HIT"
                          /\ TTLCacheGet(caches'[chain], key, t).value = fresh

\* C3: a single call is forwarded exactly when its lookup is MISS or
\* EXPIRED.  On a HIT the stored value is returned with only its id
\* replaced by the call's and the stored entry is left as it was.  On MISS
\* or EXPIRED the upstream's answer is returned and stored under the call's
\* key, so that a lookup of that key before the TTL has elapsed is a HIT on
\* that answer.
C3_SingleCall == [][\A p \in Handlers : C3_Step(p)]_vars

\* a single call found an expired value and returned the upstream's other,
\* fresh answer, which is now the stored one
C3_Witness ==
    \E p \in Handlers :
        /\ req[p].pc = "done"
        /\ ~req[p].body.list
        /\ req[p].cache_status = "EXPIRED"
        /\ req[p].fail = "none"
        /\ req[p].cached # None
        /\ req[p].final_response.result # req[p].cached.result
        /\ Item(caches[req[p].chain].cache, req[p].final_cache_key).value
               = req[p].final_response

\* C9 as stated: a request whose upstream call failed (a network error, a
\* body that is not JSON, or a failure reported by the upstream) ends with
\* 502 and has written nothing to the cache.
C9_FailureIs502AndWritesNothing ==
    \A p \in Handlers :
        (req[p].pc = "done" /\ req[p].fail # "none") =>
            /\ req[p].http = "502"
            /\ req[p].sets = << >>

\* the steps of handler p on a request for a chain without an RPC URL
C10_Step(p) ==
    (req[p].pc = "idle" /\ req'[p].pc # "idle"
                        /\ req'[p].chain \notin RPC_URL) =>
        /\ req'[p].pc = "done"
        /\ req'[p].http = "404"
        /\ req'[p].upstream = << >>
        /\ req'[p].sets = << >>
        /\ caches' = caches

\* C10: a request for a chain that has no RPC URL ends with 404, issues no
\* upstream call and leaves the registry's caches as they were: no cache is
\* created for the chain.
C10_UnknownChain == [][\A p \in Handlers : C10_Step(p)]_vars

\* a request for an unknown chain was refused while the registry holds a
\* cache of another chain
C10_Witness ==
    \E p \in Handlers :
        /\ req[p].pc = "done"
        /\ req[p].chain \notin RPC_URL
        /\ req[p].http = "404"
        /\ DOMAIN caches # {}
        /\ req[p].chain \notin DOMAIN caches

\* the aggregate label the specification gives to the lookups of a batch
AggregateLabel(statuses) ==
    IF \A i \in 1..Len(statuses) : statuses[i] = "HIT" THEN "HIT"
    ELSE IF \E i \in 1..Len(statuses) : statuses[i] = "MISS" THEN "MISS"
    ELSE "EXPIRED"

\* C14 as stated: the aggregate label of a batch is HIT only if every
\* element's lookup was a HIT; otherwise it is MISS if at least one lookup
\* was a MISS, and EXPIRED only if none was a MISS and at least one was
\* EXPIRED, whatever the order of the elements.
C14_MissBeforeExpired ==
    \A p \in Handlers :
        (req[p].pc # "idle" /\ req[p].chain \in RPC_URL /\ req[p].body.list) =>
            req[p].cache_status = AggregateLabel(req[p].statuses)

\* the requests for a configured chain that have ended, by a return or by
\* an exception
Completed == {p \in Handlers : req[p].pc = "done" /\ req[p].chain \in RPC_URL}

\* C17 as stated: every request that passed the chain check and has ended,
\* by its return or by the failure of its upstream call, has appended
\* exactly one label to the window of the ratio reporter.
C17_EveryCompletedRequestAppends ==
    Len(cache_statuses) = Cardinality(Completed)

\* the requests so far are those the claim is about: the ids of every batch
\* are pairwise distinct, and the upstream has answered every element it
\* answered with a response under that element's id
AnsweredUnderIds ==
    \A p \in Handlers :
        /\ DistinctIds(req[p].body.items)
        /\ req[p].fail # "http_error"

\* the entry e of the cache of a chain is an upstream's answer to a call on
\* that chain whose key is the entry's key
IsAnswerUnderItsKey(chain, e) ==
    \E call \in Calls, t \in 0..MaxTime :
        /\ e.value = UpstreamResponse(chain, call, t)
        /\ e.key = CallKey(chain, call)

\* every entry of every cache is an answer to a call of its key and chain
C20_EntriesAreAnswers ==
    AnsweredUnderIds =>
        \A chain \in DOMAIN caches :
            \A i \in 1..Len(caches[chain].cache) :
                IsAnswerUnderItsKey(chain, caches[chain].cache[i])

\* a step of handler p leaves the caches of the chains it does not address
\* as they are
C20_Step(p) ==
    req'[p] # req[p] =>
        /\ DOMAIN caches' \subseteq DOMAIN caches \cup {req'[p].chain}
        /\ \A c \in DOMAIN caches \ {req'[p].chain} : caches'[c] = caches[c]

\* C20: under any interleaving of requests, single and batch, on any
\* chains, whose batches have pairwise distinct ids and whose forwarded
\* elements the upstream answers under their ids, every entry stored under
\* key K in the cache of chain C is an upstream's answer to a call on C
\* whose key is K, and no request changes the cache of a chain other than
\* the one it addresses.
C20_CacheIntegrity ==
    /\ []C20_EntriesAreAnswers
    /\ [][\A p \in Handlers : C20_Step(p)]_vars

\* a batch of two stored the upstream's answers, given in the other order,
\* while an earlier batch on the same chain that forwarded a call of one of
\* the same keys still waits for the upstream, and another chain has a cache
C20_Witness ==
    /\ AnsweredUnderIds
    /\ req[1].pc = "fetching"
    /\ req[2].pc = "done"
    /\ req[1].chain = req[2].chain
    /\ req[1].body.list
    /\ req[2].body.list
    /\ Len(req[2].sets) = 2
    /\ req[2].sets[1] # req[2].sets[2]
    /\ req[2].rpc_response[1].id = req[2].batch_request[2].id
    /\ \E i \in 1..Len(req[1].batch_request) :
           CallKey(req[1].chain, req[1].batch_request[i]) \in Range(req[2].sets)

\* ------------------------------ src/main.py: websocket_endpoint
\* config.WS_URL as load_rpc_configs leaves it: an entry for every chain
\* that has an RPC URL, which is None when no WS_<CHAIN> is set
WS_URL == [eth |-> [url |-> "eth"], bsc |-> None]

\* the chains a session may name: with a WebSocket URL, with an RPC URL
\* only, and unknown
WsChains == {"eth", "bsc", "xyz"}

\* a get_ws_url that hands on whatever the table holds
GetWsUrlUnchecked(chain) ==
    [raised |-> FALSE,
     url |-> IF chain \in DOMAIN WS_URL THEN WS_URL[chain] ELSE None,
     reason |-> None]

\* Config.get_ws_url: the URL, or the ValueError raised with its message
GetWsUrl(chain) ==
    IF chain \notin DOMAIN WS_URL \/ WS_URL[chain] = None
    THEN [raised |-> TRUE, url |-> None,
          reason |-> [text |-> "No websocket URL configured for chain",
                      chain |-> chain]]
    ELSE [raised |-> FALSE, url |-> WS_URL[chain], reason |-> None]

\* a text message is the sequence of its characters; "" is << >>
WsTexts == {<< >>, <<1>>}

\* what the upstream sends: text messages and a close message
Text(data) == [type |-> "TEXT", data |-> data]
CloseMsg == [type |-> "CLOSE", data |-> << >>]

\* the session before the client connects.  pc is the endpoint's position;
\* f2c and f2r are the positions of forward_to_client and forward_to_rpc,
\* message and data their locals; rpc is the state of rpc_ws; closes are the
\* close frames sent to the client.  client_sent and upstream_sent are what
\* the peers have sent so far, of which the relay has received the first
\* client_got and upstream_got; got_live are the texts received from the
\* upstream while connection_closed was not set; to_client and to_rpc are
\* the texts handed to send_text and send_str that returned
NoSession ==
    [pc |-> "idle", chain |-> "", connection_closed |-> FALSE,
     rpc |-> "none", f2c |-> "none", f2r |-> "none",
     message |-> << >>, data |-> << >>,
     client |-> "none", closes |-> << >>,
     client_sent |-> << >>, client_got |-> 0,
     upstream_sent |-> << >>, upstream_got |-> 0,
     got_live |-> << >>, to_client |-> << >>, to_rpc |-> << >>]

\* client_ws.close(code, reason): a close frame is sent unless one was sent
\* before (RuntimeError, which the finally block swallows)
ClientClose(w, code, reason) ==
    IF w.closes # << >> THEN w
    ELSE [w EXCEPT !.closes = <<[code |-> code, reason |-> reason]>>]

\* the finally block of the endpoint
Finally(w) ==
    ClientClose([w EXCEPT !.connection_closed = TRUE, !.pc = "returned"],
                1000, None)

\* the endpoint after get_ws_url returned r: on ValueError the close with
\* 1008 and the finally block, else the connect to the upstream begins
AfterGetWsUrl(w, r) ==
    IF r.raised THEN Finally(ClientClose(w, 1008, r.reason))
    ELSE [w EXCEPT !.pc = "connecting"]

\* the test of a loop and, when it passes, the start of the next wait
\* (while not connection_closed.is_set(): await wait_for(...))
F2CLoop(w) ==
    IF w.connection_closed THEN [w EXCEPT !.f2c = "done"]
    ELSE [w EXCEPT !.f2c = "waiting"]

F2RLoop(w) ==
    IF w.connection_closed THEN [w EXCEPT !.f2r = "done"]
    ELSE [w EXCEPT !.f2r = "waiting"]

\* a forward_to_rpc that takes only longer texts for messages
F2RReceivedLongOnly(w, data) ==
    IF Len(data) > 1 THEN [w EXCEPT !.f2r = "sending", !.data = data]
    ELSE F2RLoop(w)

\* forward_to_rpc on the text that client_ws.receive_text() returned
F2RReceived(w, data) ==
    IF Len(data) > 0 THEN [w EXCEPT !.f2r = "sending", !.data = data]
    ELSE F2RLoop(w)

\* a forward_to_client without the second test of the event
F2CReceivedForwardsAfterSignal(w, message) ==
    IF message.type = "TEXT"
    THEN [w EXCEPT !.f2c = "sending", !.message = message.data,
                   !.got_live = IF w.connection_closed THEN @
                                ELSE Append(@, message.data)]
    ELSE IF message.type = "CLOSE"
    THEN [w EXCEPT !.f2c = "done", !.rpc = "closed"]
    ELSE F2CLoop(w)

\* forward_to_client on the message that rpc_ws.receive() returned
F2CReceived(w, message) ==
    IF message.type = "TEXT"
    THEN IF ~w.connection_closed
         THEN [w EXCEPT !.f2c = "sending", !.message = message.data,
                        !.got_live = Append(@, message.data)]
         ELSE F2CLoop(w)
    ELSE IF message.type = "CLOSE"
    THEN [w EXCEPT !.f2c = "done", !.rpc = "closed"]
    ELSE F2CLoop(w)

\* forward_to_client has returned: its loop ended ("done") or an exception
\* ended it, which it catches and logs ("failed")
F2CEnded(w) == w.f2c \in {"done", "failed"}

\* forward_to_rpc has returned ("done") or raised ("raised")
F2REnded(w) == w.f2r \in {"done", "raised"}

\* the session alone changes
WsStep(w) ==
    /\ ws' = w
    /\ UNCHANGED <<caches, now, req, ops, last, kd, cache_statuses,
                   last_ratio_log>>

InitWs ==
    /\ caches = << >>
    /\ now = 0
    /\ req = << >>
    /\ ops = << >>
    /\ last = << >>
    /\ kd = << >>
    /\ cache_statuses = << >>
    /\ last_ratio_log = 0
    /\ ws = NoSession

\* a client opens /{chain}/ws: the endpoint accepts and calls get_ws_url
WsAccept(chain) ==
    /\ ws.pc = "idle"
    /\ WsStep(AfterGetWsUrl([ws EXCEPT !.chain = chain, !.client = "open"],
                            GetWsUrl(chain)))

\* ws_connect succeeds: both loops are started by gather
WsConnected ==
    /\ ws.pc = "connecting"
    /\ WsStep(F2RLoop(F2CLoop([ws EXCEPT !.pc = "relaying", !.rpc = "open"])))

\* ws_connect raises (no such URL, connection refused, handshake refused)
WsConnectFailed ==
    /\ ws.pc = "connecting"
    /\ WsStep(Finally(ws))

\* the client sends a text message
ClientSend(data) ==
    /\ ws.client = "open"
    /\ ws.closes = << >>
    /\ Len(ws.client_sent) < MaxMsgs
    /\ WsStep([ws EXCEPT !.client_sent = Append(@, data)])

\* the client disconnects
ClientDisconnect ==
    /\ ws.client = "open"
    /\ ws.closes = << >>
    /\ WsStep([ws EXCEPT !.client = "gone"])

\* the upstream sends a text message
UpstreamSend(data) ==
    /\ ws.rpc = "open"
    /\ Len(ws.upstream_sent) < MaxMsgs
    /\ CloseMsg \notin Range(ws.upstream_sent)
    /\ WsStep([ws EXCEPT !.upstream_sent = Append(@, Text(data))])

\* the upstream sends a close message
UpstreamClose ==
    /\ ws.rpc = "open"
    /\ CloseMsg \notin Range(ws.upstream_sent)
    /\ WsStep([ws EXCEPT !.upstream_sent = Append(@, CloseMsg)])

\* rpc_ws.receive() returns the next message of the upstream
F2CReceive ==
    /\ ws.f2c = "waiting"
    /\ ws.rpc = "open"
    /\ ws.upstream_got < Len(ws.upstream_sent)
    /\ WsStep(F2CReceived([ws EXCEPT !.upstream_got = @ + 1],
                          ws.upstream_sent[ws.upstream_got + 1]))

\* no message for a second (asyncio.TimeoutError), or rpc_ws is closed and
\* receive() returns a message of type CLOSED: the loop goes on
F2CTimeout ==
    /\ ws.f2c = "waiting"
    /\ ws.rpc = "closed" \/ ws.upstream_got = Len(ws.upstream_sent)
    /\ WsStep(F2CLoop(ws))

\* client_ws.send_text returns: the client, if still there, has the text
F2CSent ==
    /\ ws.f2c = "sending"
    /\ ws.closes = << >>
    /\ WsStep(F2CLoop([ws EXCEPT !.to_client = Append(@, ws.message)]))

\* client_ws.send_text raises, the client being gone or closed by the
\* endpoint: the exception ends forward_to_client
F2CSendFailed ==
    /\ ws.f2c = "sending"
    /\ ws.client = "gone" \/ ws.closes # << >>
    /\ WsStep([ws EXCEPT !.f2c = "failed"])

\* client_ws.receive_text() returns the next text of the client
F2RReceive ==
    /\ ws.f2r = "waiting"
    /\ ws.client_got < Len(ws.client_sent)
    /\ WsStep(F2RReceived([ws EXCEPT !.client_got = @ + 1],
                          ws.client_sent[ws.client_got + 1]))

\* no text for a second: the loop goes on
F2RTimeout ==
    /\ ws.f2r = "waiting"
    /\ ws.client = "open"
    /\ ws.client_got = Len(ws.client_sent)
    /\ WsStep(F2RLoop(ws))

\* client_ws.receive_text() raises WebSocketDisconnect: the event is set
\* and forward_to_rpc returns
F2RDisconnected ==
    /\ ws.f2r = "waiting"
    /\ ws.client = "gone"
    /\ ws.client_got = Len(ws.client_sent)
    /\ WsStep([ws EXCEPT !.connection_closed = TRUE, !.f2r = "done"])

\* rpc_ws.send_str returns
F2RSent ==
    /\ ws.f2r = "sending"
    /\ ws.rpc = "open"
    /\ WsStep(F2RLoop([ws EXCEPT !.to_rpc = Append(@, ws.data)]))

\* rpc_ws.send_str raises on the closed rpc_ws: no WebSocketDisconnect, so
\* the exception leaves forward_to_rpc and gather
F2RSendFailed ==
    /\ ws.f2r = "sending"
    /\ ws.rpc = "closed"
    /\ WsStep([ws EXCEPT !.f2r = "raised"])

\* gather returns, both loops having returned, or raises the exception of
\* forward_to_rpc: the endpoint leaves the async with, which closes rpc_ws
WsGatherEnds ==
    /\ ws.pc = "relaying"
    /\ \/ F2CEnded(ws) /\ ws.f2r = "done"
       \/ ws.f2r = "raised"
    /\ WsStep([ws EXCEPT !.pc = "closing", !.rpc = "closed"])

\* rpc_ws is closed: the endpoint runs its finally block
WsFinally ==
    /\ ws.pc = "closing"
    /\ WsStep(Finally(ws))

\* the steps of the endpoint's coroutine
Endpoint ==
    \/ WsConnected
    \/ WsConnectFailed
    \/ WsGatherEnds
    \/ WsFinally

\* the steps of the task forward_to_client
ForwardToClient ==
    \/ F2CReceive
    \/ F2CTimeout
    \/ F2CSent
    \/ F2CSendFailed

\* the steps of the task forward_to_rpc
ForwardToRpc ==
    \/ F2RReceive
    \/ F2RTimeout
    \/ F2RDisconnected
    \/ F2RSent
    \/ F2RSendFailed

\* the steps of the proxy
WsRelay == Endpoint \/ ForwardToClient \/ ForwardToRpc

\* the steps of the peers
WsPeers ==
    \/ \E chain \in WsChains : WsAccept(chain)
    \/ \E data \in WsTexts : ClientSend(data)
    \/ ClientDisconnect
    \/ \E data \in WsTexts : UpstreamSend(data)
    \/ UpstreamClose

NextWs == WsRelay \/ WsPeers

SpecWs == InitWs /\ [][NextWs]_vars

\* The event loop runs every task that can go on: a coroutine whose await
\* has its result, and a wait_for whose second has passed.  The peers owe
\* nothing: a client may stay connected and silent for ever
SpecWsFair ==
    /\ SpecWs
    /\ WF_vars(Endpoint)
    /\ WF_vars(ForwardToClient)
    /\ WF_vars(ForwardToRpc)

\* ------------------------------------------ claims on the WebSocket relay
\* the texts of a sequence that are not empty
NonEmpty(texts) == SelectSeq(texts, LAMBDA d : Len(d) > 0)

\* the texts that forward_to_rpc has received from the client
ClientTexts == SubSeq(ws.client_sent, 1, ws.client_got)

\* forwarded are the texts received, each once, unaltered and in order; the
\* last one received is in hand while its send is awaited, and stays there
\* when that send fails
Relayed(forwarded, received, in_hand, text) ==
    IF in_hand THEN received = Append(forwarded, text)
    ELSE received = forwarded

NoWsEndpoint(chain) == chain \notin DOMAIN WS_URL \/ WS_URL[chain] = None

\* C12: a session for a chain without a WebSocket URL is closed with the
\* code 1008 and a reason; neither loop is started and no connection to an
\* upstream is opened.
C12_NoEndpointCloses1008 ==
    (ws.pc # "idle" /\ NoWsEndpoint(ws.chain)) =>
        /\ ws.pc = "returned"
        /\ Len(ws.closes) = 1
        /\ ws.closes[1].code = 1008
        /\ ws.closes[1].reason # None
        /\ ws.f2c = "none"
        /\ ws.f2r = "none"
        /\ ws.rpc = "none"

\* a session for a chain that has an RPC URL and no WebSocket URL was closed
C12_Witness ==
    /\ ws.pc = "returned"
    /\ ws.chain \in RPC_URL
    /\ NoWsEndpoint(ws.chain)
    /\ ws.closes = <<[code |-> 1008, reason |-> GetWsUrl(ws.chain).reason]>>

\* the session is torn down: the event is set, both loops have ended, rpc_ws
\* is closed and the endpoint has closed the client and returned
TornDown ==
    /\ ws.connection_closed
    /\ F2CEnded(ws)
    /\ F2REnded(ws)
    /\ ws.rpc = "closed"
    /\ ws.pc = "returned"

\* a message received from the upstream while the event is set is not sent
C18_Step ==
    (ws'.upstream_got # ws.upstream_got /\ ws.connection_closed) =>
        /\ ws'.f2c # "sending"
        /\ ws'.to_client = ws.to_client

\* C18: after the client has disconnected from a session that relays, the
\* event is set, both loops end, the session is torn down, and no message
\* received from the upstream while the event is set is sent to the client.
C18_ClientDisconnectStopsBoth ==
    /\ (ws.pc = "relaying" /\ ws.client = "gone") ~> TornDown
    /\ [][C18_Step]_vars

\* the session was torn down after the client had disconnected, and a text
\* of the upstream that arrived with the event set was not sent
C18_Witness ==
    /\ TornDown
    /\ ws.client = "gone"
    /\ ws.upstream_got = 2
    /\ Len(ws.got_live) = 1
    /\ Len(ws.to_client) = 1
    /\ ws.upstream_sent[2].type = "TEXT"

\* C19 as stated: whenever a loop of the session has ended, for whatever
\* reason, eventually the event is set, the other loop has ended and both
\* connections are closed.
C19_EitherExitTearsDown ==
    (F2CEnded(ws) \/ F2REnded(ws)) ~> TornDown

====
